---- MODULE Spec2Model ----
(***************************************************************************)
(* Actuator-control core of the Connect Four robot                         *)
(* (src/connect4game/robot/robot.py, class Robot).                         *)
(*                                                                         *)
(* Several specifications share this module:                               *)
(*   Spec      the session after construction: the foreground thread runs  *)
(*             set_up_game / grab_piece / drop_piece_to_board, the spawned *)
(*             belt-advance threads run __move_pieces_on_belt; every       *)
(*             driver action succeeds (timeouts are absorbed by the        *)
(*             executor).  FairSpec adds the scheduler's fairness.         *)
(*   SpecBelt  Spec with the pieces on the physical belt followed.         *)
(*   SpecLock  Spec with driver failures inside the operations and the     *)
(*             threads, under fair scheduling and a fair lock.             *)
(*   SpecExec  one call of __execute_robot_action on a scripted capability.*)
(*   SpecInit  the constructor Robot.__init__, every driver call going     *)
(*             through the executor.                                       *)
(*   SpecGrip  one call of __control_gripper.                              *)
(*   SpecSlow  one with self.__slow_arm_control() statement.               *)
(*   SpecRun   the runner __robotTest from its try statement to the exit   *)
(*             of the process, with failures and operator interrupts.      *)
(***************************************************************************)
EXTENDS Integers, Sequences, FiniteSets

\* ------------------------------------------------------------------ bounds

\* Largest piece_count argument given to set_up_game.
MaxTarget == 4

\* Belt-advance threads alive at the same time.
MaxThreads == 2

\* Calls a scripted capability answers (the last one is never a timeout).
MaxScript == 3

\* Nonzero hardware status readings in one __control_gripper call.
MaxFaults == 2

\* Most operations wrapped by one __slow_arm_control scope (three at lines
\* 166-171 and 312-319).
MaxBody == 3

\* Python integers are unbounded.  The counters are kept exact below CountCap
\* and CountCap stands for "CountCap or more"; no target reaches it.
CountCap == MaxTarget + 2

VARIABLES
    \* ---- session state (Robot.__init__, lines 110-120)
    piece,              \* __current_piece_count
    stack,              \* __current_stack_count
    board_calibrated,   \* __board_calibrated
    magazine_ready,     \* __magazine_ready
    belt_lock,          \* __belt_lock: "free", or who acquired it: "fg", "adv"
    \* ---- hardware as the driver commands leave it
    arm,                \* pose of the last move_pose
    gripper,            \* "open" | "closed"
    conveyor,           \* "stopped" | "BACKWARD" | "FORWARD"
    belt,               \* the physical belt: the occupied <<pair, slot>> places,
                        \* where the specification follows them
    \* ---- control
    fgPc,               \* position of the foreground thread
    target,             \* piece_count argument of the running set_up_game
    adv,                \* belt-advance threads: tid -> [pc, dir]
    \* ---- history of the running / last foreground operation
    lastOp,             \* "none" | "setup" | "grab" | "drop"
    opPiece0,           \* piece count when the operation was called
    calRuns,           \* times __calibrate_board was entered
    calConfirmed,      \* lanes the operator confirmed in that run
    issued,             \* a driver command was issued by the operation
    opPlaced,           \* placements (gripper releases on a slot) of the operation
    opLaunched,         \* belt-advance threads started by the operation
    scen,               \* "fresh" | "loaded" (one set_up_game, then grabs) | "off"
    scenN,              \* the target of that set_up_game
    scenG,              \* grab_piece calls since
    \* ---- __execute_robot_action
    exPc,               \* "idle" | "loop" | "returned" | "raised"
    exCap,              \* the capability: call number -> outcome
    exCalls,            \* calls of the capability so far
    exRetry,            \* action_retry
    exResult,           \* result (0 is None)
    exRaised,           \* kind of the failure that left the executor
    \* ---- Robot.__init__
    inPc,               \* position in the constructor
    inStep,             \* index in InitSteps of the running step
    inLog,              \* steps started, in order
    inFailed,           \* index of the step whose failure was caught (0: none)
    inFaults,           \* nonzero status readings so far
    gpAction,           \* the GripperAction __control_gripper was called with
    gpLog,              \* status readings and tool actions issued, in order
    endCalls,           \* calls of end_robot
    \* ---- __slow_arm_control
    slPc,               \* position in the scope
    slLeft,             \* wrapped operations still to run
    slLog,              \* velocity commands issued, in order
    slPending,          \* failure that left the body ("none": normal exit)
    slOut,              \* what leaves the with statement
    \* ---- __robotTest
    rtPc,               \* position in the runner
    rtArg,              \* args.piece
    rtLeft,             \* original_piece
    rtPending,          \* exception in flight ("none": none)
    rtCaught,           \* the except KeyboardInterrupt clause was entered
    rtStatus,           \* exit status of the process (-1: still running)
    connected           \* the driver connection is open (end_robot not called)

sessionVars == <<piece, stack, board_calibrated, magazine_ready, belt_lock>>
hardwareVars == <<arm, gripper, conveyor, belt>>
controlVars == <<fgPc, target, adv>>
historyVars == <<lastOp, opPiece0, calRuns, calConfirmed, issued, opPlaced, opLaunched, scen, scenN, scenG>>
beltVars == <<sessionVars, hardwareVars, controlVars, historyVars>>
execVars == <<exPc, exCap, exCalls, exRetry, exResult, exRaised>>
initVars == <<inPc, inStep, inLog, inFailed, inFaults, gpAction, gpLog, endCalls>>
slowVars == <<slPc, slLeft, slLog, slPending, slOut>>
runVars == <<rtPc, rtArg, rtLeft, rtPending, rtCaught, rtStatus, connected>>
otherVars == <<slowVars, runVars>>
vars == <<beltVars, execVars, initVars, otherVars>>

\* ------------------------------------------------------------- helpers

Tids == 1..MaxThreads

\* n + 1 of an unbounded counter, exact below CountCap.
Inc(n) == IF n < CountCap THEN n + 1 ELSE CountCap

\* The belt carries pairs of places; pair 0 is the one under the arm, whose
\* slot 0 is __index0_pos and slot 1 is __index1_pos (lines 34-44).  The belt
\* ends at the arm on one side and after BeltEnd further pairs, enough for a
\* load of MaxTarget pieces, on the other; a piece moved past an end is off
\* the belt.
BeltEnd == MaxTarget \div 2

Pairs == 0..BeltEnd

\* The place the arm is over when it is at a slot pose.
SlotAt(a) == IF a = "index0" THEN <<0, 0>> ELSE <<0, 1>>

\* The belt after the gripper has opened over place q (line 184).
Put(b, q) == IF b.tracked THEN [b EXCEPT !.places = @ \cup {q}] ELSE b

\* The belt after the gripper has closed on place q (line 205).
Take(b, q) == IF b.tracked THEN [b EXCEPT !.places = @ \ {q}] ELSE b

\* The belt after a completed advance (lines 237-243): every piece has moved
\* by one pair, away from the arm for BACKWARD and back for FORWARD.
Shifted(b, dir) ==
    LET d == IF dir = "BACKWARD" THEN 1 ELSE 0 - 1
    IN  IF b.tracked
        THEN [b EXCEPT !.places =
                  {<<q[1] + d, q[2]>> : q \in {r \in @ : r[1] + d \in Pairs}}]
        ELSE b

FreeTids == {t \in Tids : adv[t].pc = "free"}

\* The thread object threading.Thread(...) creates: the lowest unused slot.
NewTid == CHOOSE t \in FreeTids : \A u \in FreeTids : t <= u

\* Session state as the constructor leaves it.
SessionInit ==
    /\ piece = 0
    /\ stack = 0
    /\ board_calibrated = FALSE
    /\ magazine_ready = FALSE
    /\ belt_lock = "free"

BeltInit ==
    /\ SessionInit
    /\ arm = "home"
    /\ gripper = "open"
    /\ conveyor = "stopped"
    /\ belt \in {[tracked |-> b, places |-> {}] : b \in BOOLEAN}
    /\ fgPc = "idle"
    /\ target = 0
    /\ adv = [t \in Tids |-> [pc |-> "free", dir |-> "none"]]
    /\ lastOp = "none"
    /\ opPiece0 = 0
    /\ calRuns = 0
    /\ calConfirmed = {}
    /\ issued = FALSE
    /\ opPlaced = 0
    /\ opLaunched = 0
    /\ scen = "fresh"
    /\ scenN = 0
    /\ scenG = 0

ExecIdle ==
    /\ exPc = "idle"
    /\ exCap = <<>>
    /\ exCalls = 0
    /\ exRetry = FALSE
    /\ exResult = 0
    /\ exRaised = "none"

InitIdle ==
    /\ inPc = "off"
    /\ inStep = 0
    /\ inLog = <<>>
    /\ inFailed = 0
    /\ inFaults = 0
    /\ gpAction = "none"
    /\ gpLog = <<>>
    /\ endCalls = 0

SlowIdle ==
    /\ slPc = "off"
    /\ slLeft = 0
    /\ slLog = <<>>
    /\ slPending = "none"
    /\ slOut = "none"

RunIdle ==
    /\ rtPc = "off"
    /\ rtArg = 0
    /\ rtLeft = 0
    /\ rtPending = "none"
    /\ rtCaught = FALSE
    /\ rtStatus = 0 - 1
    /\ connected = TRUE

OtherIdle == SlowIdle /\ RunIdle

\* A foreground step of the session: the executor and the constructor rest.
Fg(from, to) ==
    /\ fgPc = from
    /\ fgPc' = to
    /\ UNCHANGED <<execVars, initVars, otherVars>>

\* ------------------------------------------------------ set_up_game

\* set_up_game(piece_count = t) is called (line 141).
SetUpCall(t) ==
    /\ Fg("idle", "su_magazine")
    /\ target' = t
    /\ lastOp' = "setup"
    /\ opPiece0' = piece
    /\ issued' = FALSE
    /\ opPlaced' = 0
    /\ opLaunched' = 0
    /\ scen' = IF scen = "fresh" THEN "loaded" ELSE "off"
    /\ scenN' = IF scen = "fresh" THEN t ELSE 0
    /\ scenG' = 0
    /\ UNCHANGED <<sessionVars, hardwareVars, adv, calRuns, calConfirmed>>

\* Lines 143-153: the one-time magazine placement (show the position, wait for
\* the operator, go home).
SetUpMagazine ==
    /\ Fg("su_magazine", "su_test")
    /\ IF magazine_ready
       THEN UNCHANGED <<magazine_ready, arm, issued>>
       ELSE /\ magazine_ready' = TRUE
            /\ arm' = "home"
            /\ issued' = TRUE
    /\ UNCHANGED <<piece, stack, board_calibrated, belt_lock, gripper, conveyor, belt,
                   target, adv, lastOp, opPiece0, calRuns, calConfirmed, opPlaced, opLaunched, scen, scenN, scenG>>

\* Line 155: while self.__current_piece_count != piece_count.
SetUpTest ==
    /\ fgPc = "su_test"
    /\ fgPc' = IF piece # target THEN "su_fetch" ELSE "idle"
    /\ UNCHANGED <<sessionVars, hardwareVars, target, adv, historyVars,
                   execVars, initVars, otherVars>>

\* Lines 156-173: count the piece, fetch it from the magazine (slow mode for
\* the grasp), go home.
SetUpFetch ==
    /\ Fg("su_fetch", "su_calibrate")
    /\ piece' = Inc(piece)
    /\ arm' = "home"
    /\ gripper' = "closed"
    /\ issued' = TRUE
    /\ UNCHANGED <<stack, board_calibrated, magazine_ready, belt_lock, conveyor, belt,
                   target, adv, lastOp, opPiece0, calRuns, calConfirmed, opPlaced, opLaunched, scen, scenN, scenG>>

\* Line 175 with the test left out: calibrate for every piece.
SetUpCalibrate_NoFlagTest ==
    /\ Fg("su_calibrate", "cal_approach")
    /\ calRuns' = Inc(calRuns)
    /\ calConfirmed' = {}
    /\ UNCHANGED <<sessionVars, hardwareVars, target, adv, lastOp, opPiece0,
                   issued, opPlaced, opLaunched, scen, scenN, scenG>>

\* Lines 175-176: if not self.__board_calibrated: self.__calibrate_board();
\* the gripper holds the piece meanwhile.
SetUpCalibrate ==
    IF board_calibrated
    THEN /\ Fg("su_calibrate", "su_acquire")
         /\ UNCHANGED <<sessionVars, hardwareVars, target, adv, historyVars>>
    ELSE /\ Fg("su_calibrate", "cal_approach")
         /\ calRuns' = Inc(calRuns)
         /\ calConfirmed' = {}
         /\ UNCHANGED <<sessionVars, hardwareVars, target, adv, lastOp, opPiece0,
                        issued, opPlaced, opLaunched, scen, scenN, scenG>>

\* __board_pos (lines 52-63) holds one lane.
Lanes == {0}

\* Line 310: the lane the for loop is at, in the order of __board_pos.
CalLane ==
    CHOOSE l \in Lanes \ calConfirmed : \A m \in Lanes \ calConfirmed : l <= m

\* Line 311: move above the lane.
CalApproach ==
    /\ Fg("cal_approach", "cal_down")
    /\ arm' = "board_approach"
    /\ UNCHANGED <<sessionVars, gripper, conveyor, belt, target, adv, historyVars>>

\* Lines 312-313: enter slow mode and move down to the drop pose.
CalDown ==
    /\ Fg("cal_down", "cal_wait")
    /\ arm' = "board_drop"
    /\ UNCHANGED <<sessionVars, gripper, conveyor, belt, target, adv, historyVars>>

\* Lines 316-317: input() returns when the operator presses enter.
CalConfirm ==
    /\ Fg("cal_wait", "cal_retreat")
    /\ calConfirmed' = calConfirmed \cup {CalLane}
    /\ UNCHANGED <<sessionVars, hardwareVars, target, adv, lastOp, opPiece0,
                   calRuns, issued, opPlaced, opLaunched, scen, scenN, scenG>>

\* Line 319 and the end of the with block; then the next lane, if any.
CalRetreat ==
    /\ Fg("cal_retreat", IF calConfirmed = Lanes THEN "cal_home" ELSE "cal_approach")
    /\ arm' = "board_approach"
    /\ UNCHANGED <<sessionVars, gripper, conveyor, belt, target, adv, historyVars>>

\* Lines 321-322: move home, then self.__board_calibrated = True.
CalHome ==
    /\ Fg("cal_home", "su_acquire")
    /\ arm' = "home"
    /\ board_calibrated' = TRUE
    /\ UNCHANGED <<piece, stack, magazine_ready, belt_lock, gripper, conveyor, belt,
                   target, adv, historyVars>>

\* __calibrate_board (lines 308-322).
CalibrateBoard ==
    \/ CalApproach
    \/ CalDown
    \/ CalConfirm
    \/ CalRetreat
    \/ CalHome

\* Line 179 without the with statement: the placement runs unlocked.
SetUpAcquire_NoLock ==
    /\ Fg("su_acquire", "su_move")
    /\ UNCHANGED <<sessionVars, hardwareVars, target, adv, historyVars>>

\* Line 179: with self.__belt_lock (blocks while the lock is taken).
SetUpAcquire ==
    /\ Fg("su_acquire", "su_move")
    /\ belt_lock = "free"
    /\ belt_lock' = "fg"
    /\ UNCHANGED <<piece, stack, board_calibrated, magazine_ready, hardwareVars,
                   target, adv, historyVars>>

\* Line 181 with the test of line 204.
SetUpMove_GrabTest ==
    /\ Fg("su_move", "su_inc")
    /\ arm' = IF stack = 1 THEN "index0" ELSE "index1"
    /\ issued' = TRUE
    /\ UNCHANGED <<sessionVars, gripper, conveyor, belt, target, adv, lastOp, opPiece0, calRuns, calConfirmed,
                   opPlaced, opLaunched, scen, scenN, scenG>>

\* Line 181: move to slot 0 if nothing is staged, else to slot 1.
SetUpMove ==
    /\ Fg("su_move", "su_inc")
    /\ arm' = IF stack = 0 THEN "index0" ELSE "index1"
    /\ issued' = TRUE
    /\ UNCHANGED <<sessionVars, gripper, conveyor, belt, target, adv, lastOp, opPiece0, calRuns, calConfirmed,
                   opPlaced, opLaunched, scen, scenN, scenG>>

\* Line 182: self.__current_stack_count += 1.
SetUpInc ==
    /\ Fg("su_inc", "su_open")
    /\ stack' = Inc(stack)
    /\ UNCHANGED <<piece, board_calibrated, magazine_ready, belt_lock,
                   hardwareVars, target, adv, historyVars>>

\* Line 184: release the piece on the slot.
SetUpOpen ==
    /\ Fg("su_open", "su_home")
    /\ gripper' = "open"
    /\ belt' = Put(belt, SlotAt(arm))
    /\ opPlaced' = Inc(opPlaced)
    /\ UNCHANGED <<sessionVars, arm, conveyor, target, adv, lastOp, opPiece0, calRuns, calConfirmed, issued,
                   opLaunched, scen, scenN, scenG>>

\* Line 187: move home, still inside the with block.
SetUpHome ==
    /\ Fg("su_home", "su_release")
    /\ arm' = "home"
    /\ UNCHANGED <<sessionVars, gripper, conveyor, belt, target, adv, historyVars>>

\* End of the with block of line 179: the lock is released.
SetUpRelease ==
    /\ Fg("su_release", "su_check")
    /\ belt_lock' = "free"
    /\ UNCHANGED <<piece, stack, board_calibrated, magazine_ready, hardwareVars,
                   target, adv, historyVars>>

\* Line 190 without its second test: the belt is advanced after every pair.
SetUpCheck_AlwaysReset ==
    /\ fgPc = "su_check"
    /\ fgPc' = IF stack = 2 THEN "su_reset" ELSE "su_test"
    /\ UNCHANGED <<sessionVars, hardwareVars, target, adv, historyVars,
                   execVars, initVars, otherVars>>

\* Line 190: a full pair with more pieces to load?
SetUpCheck ==
    /\ fgPc = "su_check"
    /\ fgPc' = IF stack = 2 /\ piece # target THEN "su_reset" ELSE "su_test"
    /\ UNCHANGED <<sessionVars, hardwareVars, target, adv, historyVars,
                   execVars, initVars, otherVars>>

\* Line 192: self.__current_stack_count = 0.
SetUpReset ==
    /\ Fg("su_reset", "su_spawn")
    /\ stack' = 0
    /\ UNCHANGED <<piece, board_calibrated, magazine_ready, belt_lock,
                   hardwareVars, target, adv, historyVars>>

\* Lines 193-194: start a thread running __move_pieces_on_belt(BACKWARD).
SetUpSpawn ==
    /\ Fg("su_spawn", "su_test")
    /\ FreeTids # {}
    /\ adv' = [adv EXCEPT ![NewTid] = [pc |-> "spawned", dir |-> "BACKWARD"]]
    /\ opLaunched' = Inc(opLaunched)
    /\ UNCHANGED <<sessionVars, hardwareVars, target, lastOp, opPiece0, calRuns, calConfirmed, issued, opPlaced,
                   scen, scenN, scenG>>

SetUpGame ==
    \/ SetUpMagazine
    \/ SetUpTest
    \/ SetUpFetch
    \/ SetUpCalibrate
    \/ CalibrateBoard
    \/ SetUpAcquire
    \/ SetUpMove
    \/ SetUpInc
    \/ SetUpOpen
    \/ SetUpHome
    \/ SetUpRelease
    \/ SetUpCheck
    \/ SetUpReset
    \/ SetUpSpawn

\* ------------------------------------------------------ grab_piece

\* grab_piece() is called (line 197).
GrabCall ==
    /\ Fg("idle", "gr_test")
    /\ lastOp' = "grab"
    /\ opPiece0' = piece
    /\ issued' = FALSE
    /\ opPlaced' = 0
    /\ opLaunched' = 0
    /\ scen' = IF scen = "loaded" /\ scenG < scenN THEN "loaded" ELSE "off"
    /\ scenN' = IF scen = "loaded" /\ scenG < scenN THEN scenN ELSE 0
    /\ scenG' = IF scen = "loaded" /\ scenG < scenN THEN scenG + 1 ELSE 0
    /\ UNCHANGED <<sessionVars, hardwareVars, target, adv, calRuns, calConfirmed>>

\* Lines 199-200 without the early return.
GrabTest_NoReturn ==
    /\ fgPc = "gr_test"
    /\ fgPc' = "gr_acquire"
    /\ UNCHANGED <<sessionVars, hardwareVars, target, adv, historyVars,
                   execVars, initVars, otherVars>>

\* Lines 199-200: nothing on the belt, return.
GrabTest ==
    /\ fgPc = "gr_test"
    /\ fgPc' = IF piece = 0 THEN "idle" ELSE "gr_acquire"
    /\ UNCHANGED <<sessionVars, hardwareVars, target, adv, historyVars,
                   execVars, initVars, otherVars>>

\* Line 203: with self.__belt_lock.
GrabAcquire ==
    /\ Fg("gr_acquire", "gr_move")
    /\ belt_lock = "free"
    /\ belt_lock' = "fg"
    /\ UNCHANGED <<piece, stack, board_calibrated, magazine_ready, hardwareVars,
                   target, adv, historyVars>>

\* Line 204: move to slot 0 if one piece is staged, else to slot 1.
GrabMove ==
    /\ Fg("gr_move", "gr_close")
    /\ arm' = IF stack = 1 THEN "index0" ELSE "index1"
    /\ issued' = TRUE
    /\ UNCHANGED <<sessionVars, gripper, conveyor, belt, target, adv, lastOp, opPiece0, calRuns, calConfirmed,
                   opPlaced, opLaunched, scen, scenN, scenG>>

\* Line 205: grasp.
GrabClose ==
    /\ Fg("gr_close", "gr_home")
    /\ gripper' = "closed"
    /\ belt' = Take(belt, SlotAt(arm))
    /\ UNCHANGED <<sessionVars, arm, conveyor, target, adv, historyVars>>

\* Line 206: move home.
GrabHome ==
    /\ Fg("gr_home", "gr_dec_stack")
    /\ arm' = "home"
    /\ UNCHANGED <<sessionVars, gripper, conveyor, belt, target, adv, historyVars>>

\* Line 207: self.__current_stack_count -= 1.
GrabDecStack ==
    /\ Fg("gr_dec_stack", "gr_dec_piece")
    /\ stack' = stack - 1
    /\ UNCHANGED <<piece, board_calibrated, magazine_ready, belt_lock,
                   hardwareVars, target, adv, historyVars>>

\* Line 208 left out, as in the older grabPiece (src/robot.py, line 117).
GrabDecPiece_Skip ==
    /\ Fg("gr_dec_piece", "gr_release")
    /\ UNCHANGED <<sessionVars, hardwareVars, target, adv, historyVars>>

\* Line 208: self.__current_piece_count -= 1.
GrabDecPiece ==
    /\ Fg("gr_dec_piece", "gr_release")
    /\ piece' = piece - 1
    /\ UNCHANGED <<stack, board_calibrated, magazine_ready, belt_lock,
                   hardwareVars, target, adv, historyVars>>

\* End of the with block of line 203.
GrabRelease ==
    /\ Fg("gr_release", "gr_check")
    /\ belt_lock' = "free"
    /\ UNCHANGED <<piece, stack, board_calibrated, magazine_ready, hardwareVars,
                   target, adv, historyVars>>

\* Line 211 without its second test: a refill is expected after the last piece.
GrabCheck_AlwaysRefill ==
    /\ fgPc = "gr_check"
    /\ fgPc' = IF stack = 0 THEN "gr_set" ELSE "idle"
    /\ UNCHANGED <<sessionVars, hardwareVars, target, adv, historyVars,
                   execVars, initVars, otherVars>>

\* Line 211: the pair is used up and pieces remain?
GrabCheck ==
    /\ fgPc = "gr_check"
    /\ fgPc' = IF stack = 0 /\ piece # 0 THEN "gr_set" ELSE "idle"
    /\ UNCHANGED <<sessionVars, hardwareVars, target, adv, historyVars,
                   execVars, initVars, otherVars>>

\* Line 212 left out: the staged count stays 0 when the next pair is fetched.
GrabSet_NoRefill ==
    /\ Fg("gr_set", "gr_spawn")
    /\ UNCHANGED <<sessionVars, hardwareVars, target, adv, historyVars>>

\* Line 212: self.__current_stack_count = 2.
GrabSet ==
    /\ Fg("gr_set", "gr_spawn")
    /\ stack' = 2
    /\ UNCHANGED <<piece, board_calibrated, magazine_ready, belt_lock,
                   hardwareVars, target, adv, historyVars>>

\* Lines 213-214 with the direction of line 193.
GrabSpawn_Backward ==
    /\ Fg("gr_spawn", "idle")
    /\ FreeTids # {}
    /\ adv' = [adv EXCEPT ![NewTid] = [pc |-> "spawned", dir |-> "BACKWARD"]]
    /\ opLaunched' = Inc(opLaunched)
    /\ UNCHANGED <<sessionVars, hardwareVars, target, lastOp, opPiece0, calRuns, calConfirmed, issued,
                   opPlaced, scen, scenN, scenG>>

\* Lines 213-214: start a thread running __move_pieces_on_belt(FORWARD).
GrabSpawn ==
    /\ Fg("gr_spawn", "idle")
    /\ FreeTids # {}
    /\ adv' = [adv EXCEPT ![NewTid] = [pc |-> "spawned", dir |-> "FORWARD"]]
    /\ opLaunched' = Inc(opLaunched)
    /\ UNCHANGED <<sessionVars, hardwareVars, target, lastOp, opPiece0, calRuns, calConfirmed, issued, opPlaced,
                   scen, scenN, scenG>>

GrabPiece ==
    \/ GrabTest
    \/ GrabAcquire
    \/ GrabMove
    \/ GrabClose
    \/ GrabHome
    \/ GrabDecStack
    \/ GrabDecPiece
    \/ GrabRelease
    \/ GrabCheck
    \/ GrabSet
    \/ GrabSpawn

\* ------------------------------------------------ drop_piece_to_board

\* drop_piece_to_board(index) is called (line 217).
DropCall(lane) ==
    /\ Fg("idle", "dr_approach")
    /\ lane \in Lanes
    /\ lastOp' = "drop"
    /\ opPiece0' = piece
    /\ issued' = FALSE
    /\ opPlaced' = 0
    /\ opLaunched' = 0
    /\ UNCHANGED <<sessionVars, hardwareVars, target, adv, calRuns,
                   calConfirmed, scen, scenN, scenG>>

\* Line 218.
DropApproach ==
    /\ Fg("dr_approach", "dr_down")
    /\ arm' = "board_approach"
    /\ issued' = TRUE
    /\ UNCHANGED <<sessionVars, gripper, conveyor, belt, target, adv, lastOp, opPiece0, calRuns, calConfirmed,
                   opPlaced, opLaunched, scen, scenN, scenG>>

\* Line 219.
DropDown ==
    /\ Fg("dr_down", "dr_open")
    /\ arm' = "board_drop"
    /\ UNCHANGED <<sessionVars, gripper, conveyor, belt, target, adv, historyVars>>

\* Line 221 inside a with self.__belt_lock block.
DropOpen_Locked ==
    /\ Fg("dr_open", "dr_retreat")
    /\ belt_lock = "free"
    /\ gripper' = "open"
    /\ UNCHANGED <<sessionVars, arm, conveyor, belt, target, adv, historyVars>>

\* Line 221.
DropOpen ==
    /\ Fg("dr_open", "dr_retreat")
    /\ gripper' = "open"
    /\ UNCHANGED <<sessionVars, arm, conveyor, belt, target, adv, historyVars>>

\* Line 223.
DropRetreat ==
    /\ Fg("dr_retreat", "dr_home")
    /\ arm' = "board_approach"
    /\ UNCHANGED <<sessionVars, gripper, conveyor, belt, target, adv, historyVars>>

\* Line 224.
DropHome ==
    /\ Fg("dr_home", "idle")
    /\ arm' = "home"
    /\ UNCHANGED <<sessionVars, gripper, conveyor, belt, target, adv, historyVars>>

\* The positions inside drop_piece_to_board.
DropPcs == {"dr_approach", "dr_down", "dr_open", "dr_retreat", "dr_home"}

DropPieceToBoard ==
    \/ DropApproach
    \/ DropDown
    \/ DropOpen
    \/ DropRetreat
    \/ DropHome

\* ------------------------------------------- __move_pieces_on_belt

\* A step of belt-advance thread t: only the thread, the lock and the conveyor
\* change.
AdvStep(t, from, to) ==
    /\ adv[t].pc = from
    /\ adv' = [adv EXCEPT ![t].pc = to,
                          ![t].dir = IF to = "free" THEN "none" ELSE @]
    /\ UNCHANGED <<piece, stack, board_calibrated, magazine_ready, arm, gripper,
                   fgPc, target, historyVars, execVars, initVars, otherVars>>

\* Line 232 with a lock that does not block.
AdvAcquire_NoWait(t) ==
    /\ AdvStep(t, "spawned", "locked")
    /\ belt_lock' = "adv"
    /\ UNCHANGED <<conveyor, belt>>

\* Line 232: with self.__belt_lock.
AdvAcquire(t) ==
    /\ AdvStep(t, "spawned", "locked")
    /\ belt_lock = "free"
    /\ belt_lock' = "adv"
    /\ UNCHANGED <<conveyor, belt>>

\* A driver command issued after end_robot released the connection fails:
\* the failure ends the thread, the with statement releasing the lock.
AdvFail(t, from) ==
    /\ AdvStep(t, from, "free")
    /\ belt_lock' = "free"
    /\ UNCHANGED <<conveyor, belt>>

\* Lines 237-239: run_conveyor(conveyor_id, 25, direction).
AdvRun(t) ==
    IF connected
    THEN /\ AdvStep(t, "locked", "running")
         /\ conveyor' = adv[t].dir
         /\ UNCHANGED <<belt_lock, belt>>
    ELSE AdvFail(t, "locked")

\* Lines 240-243: after the 2.5 s wait, stop_conveyor(conveyor_id).
AdvStop(t) ==
    IF connected
    THEN /\ AdvStep(t, "running", "stopped")
         /\ conveyor' = "stopped"
         /\ belt' = Shifted(belt, adv[t].dir)
         /\ UNCHANGED belt_lock
    ELSE AdvFail(t, "running")

\* End of the with block of line 232; the thread ends.
AdvRelease(t) ==
    /\ AdvStep(t, "stopped", "free")
    /\ belt_lock' = "free"
    /\ UNCHANGED <<conveyor, belt>>

MovePiecesOnBelt(t) ==
    \/ AdvAcquire(t)
    \/ AdvRun(t)
    \/ AdvStop(t)
    \/ AdvRelease(t)

\* ------------------------------------------------- the session

\* The caller's choice of the next operation.
Call ==
    \/ \E t \in 0..MaxTarget : SetUpCall(t)
    \/ GrabCall
    \/ \E lane \in Lanes : DropCall(lane)

\* The foreground thread inside an operation.
FgStep == SetUpGame \/ GrabPiece \/ DropPieceToBoard

Init == BeltInit /\ ~belt.tracked /\ ExecIdle /\ InitIdle /\ OtherIdle

Next ==
    \/ Call
    \/ FgStep
    \/ \E t \in Tids : MovePiecesOnBelt(t)

Spec == Init /\ [][Next]_vars

\* Every thread that can run is eventually run; the caller need not call.
FairSpec ==
    /\ Spec
    /\ WF_vars(FgStep)
    /\ \A t \in Tids : WF_vars(MovePiecesOnBelt(t))

\* ------------------------------------------- failures inside operations

\* The positions of the foreground thread at which a driver command or
\* input() is the next thing to run.
DriverPcs ==
    {"su_magazine", "su_fetch", "cal_approach", "cal_down", "cal_wait",
     "cal_retreat", "cal_home", "su_move", "su_open", "su_home",
     "gr_move", "gr_close", "gr_home"} \cup DropPcs

\* Lines 179 and 203 with acquire() and release() calls in place of the with
\* statement: a failure skips the release.
OpFail_KeepLock ==
    /\ fgPc \in DriverPcs
    /\ fgPc' = "idle"
    /\ lastOp' = "failed"
    /\ UNCHANGED <<sessionVars, hardwareVars, target, adv, opPiece0, calRuns,
                   calConfirmed, issued, opPlaced, opLaunched, scen, scenN, scenG,
                   execVars, initVars, otherVars>>

\* A driver command (or input()) of the running operation raises and the
\* failure leaves the operation; a with self.__belt_lock block it is in
\* (lines 179, 203) releases the lock on the way out.  The caller goes on.
OpFail ==
    /\ fgPc \in DriverPcs
    /\ fgPc' = "idle"
    /\ belt_lock' = IF belt_lock = "fg" THEN "free" ELSE belt_lock
    /\ lastOp' = "failed"
    /\ UNCHANGED <<piece, stack, board_calibrated, magazine_ready, hardwareVars,
                   target, adv, opPiece0, calRuns, calConfirmed, issued, opPlaced,
                   opLaunched, scen, scenN, scenG, execVars, initVars, otherVars>>

\* run_conveyor (lines 237-239) or stop_conveyor (lines 241-243) raises in
\* thread t: the failure ends the thread, the with statement of line 232
\* releasing the lock.
AdvRaise(t) ==
    /\ adv[t].pc \in {"locked", "running"}
    /\ AdvFail(t, adv[t].pc)

\* The caller of a failed operation makes no further call, as __robotTest
\* (lines 348-360), which goes from any failure to its finally clause.
CallLock ==
    /\ lastOp # "failed"
    /\ Call

NextLock ==
    \/ CallLock
    \/ FgStep
    \/ \E t \in Tids : MovePiecesOnBelt(t)
    \/ OpFail
    \/ \E t \in Tids : AdvRaise(t)

\* The session with driver failures, under fair scheduling: a thread that
\* can run is eventually run, and an advance thread waiting for the lock gets
\* it if the lock is free again and again (the hand-over of the lock is
\* fair).  Failures and calls are not forced.
SpecLock ==
    /\ Init
    /\ [][NextLock]_vars
    /\ WF_vars(FgStep)
    /\ \A t \in Tids : SF_vars(MovePiecesOnBelt(t))

\* The same session, with the physical belt (empty at first) followed.
InitBelt == BeltInit /\ belt.tracked /\ ExecIdle /\ InitIdle /\ OtherIdle

SpecBelt == InitBelt /\ [][Next]_vars

\* --------------------------------------------- __execute_robot_action

\* What one call of a capability does: return a value, or raise.
Values == {1, 2}

Outcomes ==
    {[kind |-> "ok", val |-> v] : v \in Values}
    \cup {[kind |-> k, val |-> 0] : k \in {"RosTimeoutError", "TypeError", "Other"}}

\* A capability answers its n-th call with its n-th outcome; it does not time
\* out for ever.
Capabilities ==
    {c \in [1..MaxScript -> Outcomes] : c[MaxScript].kind # "RosTimeoutError"}

\* Lines 249-254: action_retry = True, result = None.
ExecEnter(cap) ==
    /\ exPc' = "loop"
    /\ exCap' = cap
    /\ exCalls' = 0
    /\ exRetry' = TRUE
    /\ exResult' = 0
    /\ exRaised' = "none"

\* The caller has taken the executor's result or failure.
ExecLeave ==
    /\ exPc' = "idle"
    /\ exCap' = <<>>
    /\ exCalls' = 0
    /\ exRetry' = FALSE
    /\ exResult' = 0
    /\ exRaised' = "none"

\* Lines 257-268 with no clause for RosTimeoutError.
Handle_TimeoutUncaught(kind) ==
    CASE kind = "ok" -> "done"
      [] OTHER -> "raise"

\* Lines 257-268: which clause of the try statement takes an outcome.
Handle(kind) ==
    CASE kind = "ok" -> "done"
      [] kind = "TypeError" -> "raise"
      [] kind = "RosTimeoutError" -> "continue"
      [] OTHER -> "raise"

\* Lines 256-268: one turn of while action_retry.
ExecAttempt ==
    /\ exPc = "loop"
    /\ exRetry
    /\ LET o == exCap[exCalls + 1]
           h == Handle(o.kind)
       IN  /\ exCalls' = exCalls + 1
           /\ exResult' = IF h = "done" THEN o.val ELSE exResult
           /\ exRetry' = IF h = "done" THEN FALSE ELSE exRetry
           /\ exPc' = IF h = "raise" THEN "raised" ELSE exPc
           /\ exRaised' = IF h = "raise" THEN o.kind ELSE exRaised
    /\ UNCHANGED <<exCap, beltVars, initVars, otherVars>>

\* Line 269: return result.
ExecReturn ==
    /\ exPc = "loop"
    /\ ~exRetry
    /\ exPc' = "returned"
    /\ UNCHANGED <<exCap, exCalls, exRetry, exResult, exRaised, beltVars, initVars, otherVars>>

ExecuteRobotAction == ExecAttempt \/ ExecReturn

InitExec ==
    /\ BeltInit
    /\ ~belt.tracked
    /\ InitIdle
    /\ exPc = "loop"
    /\ exCap \in Capabilities
    /\ exCalls = 0
    /\ exRetry = TRUE
    /\ exResult = 0
    /\ exRaised = "none"
    /\ OtherIdle

NextExec == ExecuteRobotAction

SpecExec == InitExec /\ [][NextExec]_vars

\* ------------------------------------------------------ Robot.__init__

\* The steps of the second try block (lines 73-103), in order.
InitSteps ==
    <<"calibrate_auto", "update_tool", "get_current_tool_id", "control_gripper",
      "set_conveyor", "move_to_home">>

\* Lines 67-71: NiryoRobot(robot_ip); a refused connection is logged and
\* raised again, nothing else runs.
InitConnect ==
    /\ inPc = "connect"
    /\ \E ok \in BOOLEAN :
        /\ inPc' = IF ok THEN "step" ELSE "refused"
        /\ inStep' = IF ok THEN 1 ELSE 0
    /\ UNCHANGED <<inLog, inFailed, inFaults, gpAction, gpLog, endCalls, execVars, beltVars, otherVars>>

\* Lines 76, 83, 86, 97, 103 (278): the step is one executor call.
InitStart ==
    /\ inPc = "step"
    /\ InitSteps[inStep] # "control_gripper"
    /\ inPc' = "wait"
    /\ inLog' = Append(inLog, inStep)
    /\ \E cap \in Capabilities : ExecEnter(cap)
    /\ UNCHANGED <<inStep, inFailed, inFaults, gpAction, gpLog, endCalls, beltVars, otherVars>>

\* Line 92: __control_gripper(GripperAction.OPEN) starts.
InitStartGripper ==
    /\ inPc = "step"
    /\ InitSteps[inStep] = "control_gripper"
    /\ inPc' = "grip_read"
    /\ inLog' = Append(inLog, inStep)
    /\ inFaults' = 0
    /\ gpAction' = "OPEN"
    /\ gpLog' = <<>>
    /\ UNCHANGED <<inStep, inFailed, endCalls, execVars, beltVars, otherVars>>

\* Lines 298-305: the tool action for the requested GripperAction.
ToolCall(a) == IF a = "OPEN" THEN "release_with_tool" ELSE "grasp_with_tool"

\* Lines 285-305 with no status check: the tool action follows any reading.
InitGripRead_NoCheck ==
    /\ inPc = "grip_read"
    /\ \E r \in {"absent", "clear", "fault"} :
        /\ inPc' = "grip_act"
        /\ inFaults' = IF r = "fault" THEN inFaults + 1 ELSE inFaults
        /\ inFaults < MaxFaults
        /\ gpLog' = gpLog \o <<r, ToolCall(gpAction)>>
        /\ \E cap \in Capabilities : ExecEnter(cap)
    /\ UNCHANGED <<inStep, inLog, inFailed, gpAction, endCalls, beltVars, otherVars>>

\* Lines 285-296 and 298-305: hardware_errors[7] is read outside the
\* executor.  A missing slot (IndexError) or a zero goes on to the tool
\* action, a nonzero code to update_tool, any other failure of the read
\* leaves __control_gripper.
InitGripRead ==
    /\ inPc = "grip_read"
    /\ \E r \in {"absent", "clear", "fault", "error"} :
        CASE r \in {"absent", "clear"} ->
                /\ inPc' = "grip_act"
                /\ gpLog' = gpLog \o <<r, ToolCall(gpAction)>>
                /\ \E cap \in Capabilities : ExecEnter(cap)
                /\ UNCHANGED <<inFailed, inFaults>>
          [] r = "fault" ->
                /\ inFaults < MaxFaults
                /\ inFaults' = inFaults + 1
                /\ inPc' = "grip_reinit"
                /\ gpLog' = gpLog \o <<r, "update_tool">>
                /\ \E cap \in Capabilities : ExecEnter(cap)
                /\ UNCHANGED inFailed
          [] OTHER ->
                /\ inPc' = "except"
                /\ inFailed' = inStep
                /\ gpLog' = Append(gpLog, r)
                /\ UNCHANGED <<inFaults, execVars>>
    /\ UNCHANGED <<inStep, inLog, gpAction, endCalls, beltVars, otherVars>>

\* Lines 291-294: update_tool returned, read the status again.
InitGripReinit ==
    /\ inPc = "grip_reinit"
    /\ exPc = "returned"
    /\ inPc' = "grip_read"
    /\ ExecLeave
    /\ UNCHANGED <<inStep, inLog, inFailed, inFaults, gpAction, gpLog, endCalls, beltVars, otherVars>>

\* The step's last executor call returned: the next statement of the try block.
InitStepDone ==
    /\ inPc \in {"wait", "grip_act"}
    /\ exPc = "returned"
    /\ inPc' = IF inStep = Len(InitSteps) THEN "construct" ELSE "step"
    /\ inStep' = IF inStep = Len(InitSteps) THEN inStep ELSE inStep + 1
    /\ ExecLeave
    /\ UNCHANGED <<inLog, inFailed, inFaults, gpAction, gpLog, endCalls, beltVars, otherVars>>

\* Lines 104-107 as the first try block does it (69-71): raise, no teardown.
InitCatch_NoTeardown ==
    /\ inPc \in {"wait", "grip_reinit", "grip_act"}
    /\ exPc = "raised"
    /\ inPc' = "raised"
    /\ inFailed' = inStep
    /\ ExecLeave
    /\ UNCHANGED <<inStep, inLog, inFaults, gpAction, gpLog, endCalls, beltVars, otherVars>>

\* Line 104: except: takes whatever left the executor.
InitCatch ==
    /\ inPc \in {"wait", "grip_reinit", "grip_act"}
    /\ exPc = "raised"
    /\ inPc' = "except"
    /\ inFailed' = inStep
    /\ ExecLeave
    /\ UNCHANGED <<inStep, inLog, inFaults, gpAction, gpLog, endCalls, beltVars, otherVars>>

\* Lines 106-107: self.end_robot(), then raise (if end_robot fails, its
\* failure is the one that propagates).
InitEndRobot ==
    /\ inPc = "except"
    /\ endCalls' = endCalls + 1
    /\ inPc' = "raised"
    /\ UNCHANGED <<inStep, inLog, inFailed, inFaults, gpAction, gpLog, execVars, beltVars, otherVars>>

\* Lines 109-120: the session state.
InitConstruct ==
    /\ inPc = "construct"
    /\ inPc' = "constructed"
    /\ piece' = 0
    /\ stack' = 0
    /\ board_calibrated' = FALSE
    /\ magazine_ready' = FALSE
    /\ belt_lock' = "free"
    /\ UNCHANGED <<inStep, inLog, inFailed, inFaults, gpAction, gpLog, endCalls, execVars,
                   hardwareVars, controlVars, historyVars, otherVars>>

RobotInit ==
    \/ InitConnect
    \/ InitStart
    \/ InitStartGripper
    \/ InitGripRead
    \/ InitGripReinit
    \/ InitStepDone
    \/ InitCatch
    \/ InitEndRobot
    \/ InitConstruct

InitInit ==
    /\ BeltInit
    /\ ~belt.tracked
    /\ ExecIdle
    /\ inPc = "connect"
    /\ inStep = 0
    /\ inLog = <<>>
    /\ inFailed = 0
    /\ inFaults = 0
    /\ gpAction = "none"
    /\ gpLog = <<>>
    /\ endCalls = 0
    /\ OtherIdle

NextInit == RobotInit \/ ExecuteRobotAction

SpecInit == InitInit /\ [][NextInit]_vars

\* ------------------------------------------------- __control_gripper

\* __control_gripper(action) is called on a constructed arm (lines 184, 205,
\* 221), the status register in any condition.
InitGrip ==
    /\ BeltInit
    /\ ~belt.tracked
    /\ ExecIdle
    /\ inPc = "grip_read"
    /\ inStep = 0
    /\ inLog = <<>>
    /\ inFailed = 0
    /\ inFaults = 0
    /\ gpAction \in {"OPEN", "CLOSE"}
    /\ gpLog = <<>>
    /\ endCalls = 0
    /\ OtherIdle

\* Lines 298-305: the tool action returned, and so does __control_gripper.
GripReturn ==
    /\ inPc = "grip_act"
    /\ exPc = "returned"
    /\ inPc' = "grip_done"
    /\ ExecLeave
    /\ UNCHANGED <<inStep, inLog, inFailed, inFaults, gpAction, gpLog, endCalls,
                   beltVars, otherVars>>

\* A failure left the executor (lines 291-293, 298-305): nothing in
\* __control_gripper catches it.
GripRaise ==
    /\ inPc \in {"grip_reinit", "grip_act"}
    /\ exPc = "raised"
    /\ inPc' = "grip_raised"
    /\ ExecLeave
    /\ UNCHANGED <<inStep, inLog, inFailed, inFaults, gpAction, gpLog, endCalls,
                   beltVars, otherVars>>

ControlGripper ==
    \/ InitGripRead
    \/ InitGripReinit
    \/ GripReturn
    \/ GripRaise

NextGrip == ControlGripper \/ ExecuteRobotAction

SpecGrip == InitGrip /\ [][NextGrip]_vars

\* ------------------------------------------------- __slow_arm_control

\* What the other specifications leave alone while a scope runs.
SlowFrame == UNCHANGED <<beltVars, initVars, runVars>>

\* Lines 327-329: set_arm_max_velocity(slow_speed) through the executor.
SlowEnter ==
    /\ slPc = "enter"
    /\ slPc' = "enter_wait"
    /\ slLog' = Append(slLog, 30)
    /\ \E cap \in Capabilities : ExecEnter(cap)
    /\ UNCHANGED <<slLeft, slPending, slOut>>
    /\ SlowFrame

\* Line 331: the command returned; yield hands control to the body.  If it
\* raised, the failure leaves the generator before the try of line 330: the
\* body does not run.
SlowEntered ==
    /\ slPc = "enter_wait"
    /\ exPc \in {"returned", "raised"}
    /\ slPc' = IF exPc = "returned" THEN "body" ELSE "not_entered"
    /\ slOut' = IF exPc = "returned" THEN slOut ELSE exRaised
    /\ ExecLeave
    /\ UNCHANGED <<slLeft, slLog, slPending>>
    /\ SlowFrame

\* The body starts its next wrapped operation (lines 167-171, 313-319).
SlowBodyCall ==
    /\ slPc = "body"
    /\ slLeft > 0
    /\ slLeft' = slLeft - 1
    /\ slPc' = "body_wait"
    /\ \E cap \in Capabilities : ExecEnter(cap)
    /\ UNCHANGED <<slLog, slPending, slOut>>
    /\ SlowFrame

\* The wrapped operation returned.
SlowBodyReturn ==
    /\ slPc = "body_wait"
    /\ exPc = "returned"
    /\ slPc' = "body"
    /\ ExecLeave
    /\ UNCHANGED <<slLeft, slLog, slPending, slOut>>
    /\ SlowFrame

\* Lines 330-335 without try / finally: a failure of the body leaves the
\* scope at once.
SlowBodyRaise_NoFinally ==
    /\ slPc = "body_wait"
    /\ exPc = "raised"
    /\ slPc' = "exited"
    /\ slPending' = exRaised
    /\ slOut' = exRaised
    /\ ExecLeave
    /\ UNCHANGED <<slLeft, slLog>>
    /\ SlowFrame

\* The wrapped operation raised: the failure is thrown into the generator at
\* the yield and reaches the finally clause (lines 330-332).
SlowBodyRaise ==
    /\ slPc = "body_wait"
    /\ exPc = "raised"
    /\ slPc' = "finally"
    /\ slPending' = exRaised
    /\ ExecLeave
    /\ UNCHANGED <<slLeft, slLog, slOut>>
    /\ SlowFrame

\* The body ends: normally after its last operation, or by a failure raised
\* outside the executor (input() at line 317, the status read of line 285).
SlowBodyEnd ==
    /\ slPc = "body"
    /\ \E f \in {"none", "Other"} :
        /\ f = "none" => slLeft = 0
        /\ slPending' = f
    /\ slPc' = "finally"
    /\ UNCHANGED <<slLeft, slLog, slOut, execVars>>
    /\ SlowFrame

\* Lines 332-335: finally: set_arm_max_velocity(100) through the executor.
SlowRestore ==
    /\ slPc = "finally"
    /\ slPc' = "restore_wait"
    /\ slLog' = Append(slLog, 100)
    /\ \E cap \in Capabilities : ExecEnter(cap)
    /\ UNCHANGED <<slLeft, slPending, slOut>>
    /\ SlowFrame

\* The scope ends: with the failure of the restore command if it raised,
\* else with the failure pending from the body, else normally.
SlowExit ==
    /\ slPc = "restore_wait"
    /\ exPc \in {"returned", "raised"}
    /\ slPc' = "exited"
    /\ slOut' = IF exPc = "raised" THEN exRaised ELSE slPending
    /\ ExecLeave
    /\ UNCHANGED <<slLeft, slLog, slPending>>
    /\ SlowFrame

SlowArmControl ==
    \/ SlowEnter
    \/ SlowEntered
    \/ SlowBodyCall
    \/ SlowBodyReturn
    \/ SlowBodyRaise
    \/ SlowBodyEnd
    \/ SlowRestore
    \/ SlowExit

\* A with self.__slow_arm_control() statement is reached, its body holding up
\* to MaxBody operations.
InitSlow ==
    /\ BeltInit
    /\ ~belt.tracked
    /\ ExecIdle
    /\ InitIdle
    /\ slPc = "enter"
    /\ slLeft \in 0..MaxBody
    /\ slLog = <<>>
    /\ slPending = "none"
    /\ slOut = "none"
    /\ RunIdle

NextSlow == SlowArmControl \/ ExecuteRobotAction

SpecSlow == InitSlow /\ [][NextSlow]_vars

\* -------------------------------------------------------- __robotTest

\* What a step of the runner itself leaves alone.
RunFrame == UNCHANGED <<beltVars, execVars, slowVars>>

InitRest == UNCHANGED <<inPc, inStep, inLog, inFailed, inFaults, gpAction, gpLog>>

\* Lines 349-350: robot_ethernet.set_up_game(piece_count=args.piece).
RunSetUp ==
    /\ rtPc = "setup"
    /\ lastOp = "none"
    /\ SetUpCall(rtArg)

\* set_up_game returned: on to the while of line 351.
RunSetUpDone ==
    /\ rtPc = "setup"
    /\ lastOp = "setup"
    /\ fgPc = "idle"
    /\ rtPc' = "loop"
    /\ UNCHANGED <<rtArg, rtLeft, rtPending, rtCaught, rtStatus, connected,
                   initVars>>
    /\ RunFrame

\* Lines 351-352: while original_piece: original_piece -= 1; the loop ends
\* into the finally clause.
RunLoop ==
    /\ rtPc = "loop"
    /\ rtPc' = IF rtLeft = 0 THEN "finally" ELSE "grab"
    /\ rtLeft' = IF rtLeft = 0 THEN 0 ELSE rtLeft - 1
    /\ UNCHANGED <<rtArg, rtPending, rtCaught, rtStatus, connected, initVars>>
    /\ RunFrame

\* Line 353: robot_ethernet.grab_piece().
RunGrab ==
    /\ rtPc = "grab"
    /\ lastOp # "grab"
    /\ GrabCall

\* grab_piece returned.
RunGrabDone ==
    /\ rtPc = "grab"
    /\ lastOp = "grab"
    /\ fgPc = "idle"
    /\ rtPc' = "drop"
    /\ UNCHANGED <<rtArg, rtLeft, rtPending, rtCaught, rtStatus, connected,
                   initVars>>
    /\ RunFrame

\* Line 354: robot_ethernet.drop_piece_to_board(0).
RunDrop ==
    /\ rtPc = "drop"
    /\ lastOp = "grab"
    /\ DropCall(0)

\* drop_piece_to_board returned: back to the while.
RunDropDone ==
    /\ rtPc = "drop"
    /\ lastOp = "drop"
    /\ fgPc = "idle"
    /\ rtPc' = "loop"
    /\ UNCHANGED <<rtArg, rtLeft, rtPending, rtCaught, rtStatus, connected,
                   initVars>>
    /\ RunFrame

\* An exception leaves the try body of lines 348-354 from wherever the
\* foreground thread is; a with self.__belt_lock block it is in releases the
\* lock on the way out.
Unwind(to, exc) ==
    /\ rtPc \in {"setup", "loop", "grab", "drop"}
    /\ rtPc' = to
    /\ rtPending' = exc
    /\ fgPc' = "idle"
    /\ belt_lock' = IF belt_lock = "fg" THEN "free" ELSE belt_lock
    /\ UNCHANGED <<piece, stack, board_calibrated, magazine_ready, hardwareVars,
                   target, adv, historyVars, execVars, initVars, slowVars,
                   rtArg, rtLeft, rtStatus, connected>>

\* A driver command or input() of the running operation fails: no except
\* clause of the runner matches, the finally clause runs.
RunFail ==
    /\ fgPc \in DriverPcs
    /\ Unwind("finally", "Failure")
    /\ UNCHANGED rtCaught

\* The operator interrupts the process while the try body runs: the except
\* KeyboardInterrupt of line 356 takes it.
RunInterrupt ==
    /\ Unwind("except", "none")
    /\ rtCaught' = TRUE

\* Lines 357-358 with os._exit in place of sys.exit: the process ends in the
\* handler.
RunCatch_ExitNow ==
    /\ rtPc = "except"
    /\ rtPc' = "join"
    /\ rtPending' = "SystemExit"
    /\ UNCHANGED <<rtArg, rtLeft, rtCaught, rtStatus, connected, initVars>>
    /\ RunFrame

\* Lines 357-358: log, then sys.exit(130) raises SystemExit; a second
\* interrupt may arrive first.  Either way the finally clause is next.
RunCatch ==
    /\ rtPc = "except"
    /\ rtPc' = "finally"
    /\ rtPending' \in {"SystemExit", "KeyboardInterrupt"}
    /\ UNCHANGED <<rtArg, rtLeft, rtCaught, rtStatus, connected, initVars>>
    /\ RunFrame

\* Lines 359-360 (227-228): finally: robot_ethernet.end_robot(); if it
\* raises, its failure replaces the one in flight.
RunEndRobot ==
    /\ rtPc = "finally"
    /\ rtPc' = "join"
    /\ endCalls' = endCalls + 1
    /\ connected' = FALSE
    /\ \E ok \in BOOLEAN : rtPending' = IF ok THEN rtPending ELSE "Failure"
    /\ UNCHANGED <<rtArg, rtLeft, rtCaught, rtStatus>>
    /\ InitRest
    /\ RunFrame

\* The exit status an exception in flight gives the process; an uncaught
\* KeyboardInterrupt ends it as the interrupt signal would (130) or as any
\* uncaught exception (1), by interpreter version.
ExitStatus(exc) ==
    CASE exc = "none" -> {0}
      [] exc = "SystemExit" -> {130}
      [] exc = "KeyboardInterrupt" -> {1, 130}
      [] OTHER -> {1}

\* The interpreter ends the process once the main thread is done and every
\* (non-daemon) thread it started has ended.
RunExit ==
    /\ rtPc = "join"
    /\ \A t \in Tids : adv[t].pc = "free"
    /\ rtPc' = "exited"
    /\ rtStatus' \in ExitStatus(rtPending)
    /\ UNCHANGED <<rtArg, rtLeft, rtPending, rtCaught, connected, initVars>>
    /\ RunFrame

RobotTest ==
    \/ RunSetUp
    \/ RunSetUpDone
    \/ RunLoop
    \/ RunGrab
    \/ RunGrabDone
    \/ RunDrop
    \/ RunDropDone
    \/ RunFail
    \/ RunInterrupt
    \/ RunCatch
    \/ RunEndRobot
    \/ RunExit

\* Line 348: the session was created (lines 342-346) and the try statement is
\* entered.
InitRun ==
    /\ BeltInit
    /\ ~belt.tracked
    /\ ExecIdle
    /\ InitIdle
    /\ SlowIdle
    /\ rtPc = "setup"
    /\ rtArg \in 0..MaxTarget
    /\ rtLeft = rtArg
    /\ rtPending = "none"
    /\ rtCaught = FALSE
    /\ rtStatus = 0 - 1
    /\ connected = TRUE

NextRun ==
    \/ RobotTest
    \/ FgStep
    \/ \E t \in Tids : MovePiecesOnBelt(t)

SpecRun == InitRun /\ [][NextRun]_vars

\* ===================================================================
\* Properties
\* ===================================================================

\* The foreground thread is inside the with block of set_up_game (lines
\* 180-187) or of grab_piece (lines 204-208).
FgInSlotSection ==
    fgPc \in {"su_move", "su_inc", "su_open", "su_home", "su_release",
              "gr_move", "gr_close", "gr_home", "gr_dec_stack", "gr_dec_piece",
              "gr_release"}

\* Threads inside the with block of __move_pieces_on_belt.
AdvInSection == {t \in Tids : adv[t].pc \in {"locked", "running", "stopped"}}

\* Threads between run_conveyor and stop_conveyor (the settle wait).
AdvRunning == {t \in Tids : adv[t].pc = "running"}

\* C1: over every sequence of set_up_game and grab_piece calls the staged
\* count stays in {0, 1, 2}.
C1_StagedInRange == stack \in {0, 1, 2}

\* C2: from a fresh session, set_up_game(N) followed by exactly N grab_piece
\* calls (drops in between or not) ends with piece count 0 and staged count 0.
C2_LoadThenGrabAll ==
    (fgPc = "idle" /\ scen = "loaded" /\ scenG = scenN) => (piece = 0 /\ stack = 0)

\* Three pieces loaded and grabbed: a belt advance in each direction.
C2_Witness ==
    /\ fgPc = "idle"
    /\ scen = "loaded"
    /\ scenN = 3
    /\ scenG = 3
    /\ lastOp = "drop"

\* C3: at most one thread is inside a belt critical section; while the
\* conveyor runs (run_conveyor .. stop_conveyor of an advance thread) the
\* foreground thread is not inside its slot section and no second advance
\* thread runs the conveyor.
C3_BeltMutualExclusion ==
    /\ Cardinality(AdvInSection) + (IF FgInSlotSection THEN 1 ELSE 0) <= 1
    /\ Cardinality(AdvRunning) <= 1
    /\ (conveyor # "stopped") = (AdvRunning # {})
    /\ (conveyor # "stopped") => ~FgInSlotSection
    /\ FgInSlotSection => belt_lock = "fg"
    /\ (AdvInSection # {}) => belt_lock = "adv"

\* The conveyor runs while the foreground thread and a second advance thread
\* both wait for the lock.
C3_Witness ==
    /\ conveyor # "stopped"
    /\ fgPc \in {"su_acquire", "gr_acquire"}
    /\ \E t \in Tids : adv[t].pc = "spawned"

C5_AdvanceBeforeNextSlot ==
    FgInSlotSection => \A t \in Tids : adv[t].pc = "free"

\* The call that ends the executor: the first that is not a timeout.
FirstFinal(cap) ==
    CHOOSE n \in 1..MaxScript :
        /\ cap[n].kind # "RosTimeoutError"
        /\ \A m \in 1..(n - 1) : cap[m].kind = "RosTimeoutError"

\* C6: the executor calls the capability again exactly after a timeout: with
\* N timeouts before the first other outcome it makes N + 1 calls; a success
\* value is returned, any other failure propagates from the call that raised
\* it, and a timeout never leaves the executor.
C6_RetryOnlyOnTimeout ==
    /\ exPc # "idle" => exCalls <= FirstFinal(exCap)
    /\ (exPc = "loop" /\ exRetry) =>
            \A n \in 1..exCalls : exCap[n].kind = "RosTimeoutError"
    /\ (exPc = "returned" \/ (exPc = "loop" /\ ~exRetry)) =>
            /\ exCalls = FirstFinal(exCap)
            /\ exCap[exCalls].kind = "ok"
            /\ exResult = exCap[exCalls].val
    /\ exPc = "raised" =>
            /\ exCalls = FirstFinal(exCap)
            /\ exRaised = exCap[exCalls].kind
            /\ exRaised \in {"TypeError", "Other"}

\* Two timeouts, then the value 2 is returned after three calls.
C6_Witness ==
    /\ exPc = "returned"
    /\ exCalls = 3
    /\ exResult = 2
    /\ exCap[1].kind = "RosTimeoutError"
    /\ exCap[2].kind = "RosTimeoutError"

\* set_up_game(4) was the first operation of the session and has returned.
SetUpFourReturned ==
    /\ fgPc = "idle"
    /\ lastOp = "setup"
    /\ scen = "loaded"
    /\ scenN = 4

\* C7 as stated: set_up_game(4) on a fresh session makes 4 placements and
\* launches 2 belt advances, and ends with piece count 4 and staged count 0.
C7_SetUpFour_AsStated ==
    SetUpFourReturned =>
        (opPlaced = 4 /\ opLaunched = 2 /\ piece = 4 /\ stack = 0)

\* C7 as amended: set_up_game(4) on a fresh session makes 4 placements and
\* launches 1 belt advance (after piece 2, none after piece 4), and ends with
\* piece count 4 and staged count 2.
C7_SetUpFour ==
    SetUpFourReturned =>
        (opPlaced = 4 /\ opLaunched = 1 /\ piece = 4 /\ stack = 2)

C7_Witness == SetUpFourReturned /\ issued

\* C8: grab_piece() with piece count 0 is a no-op: from its test the
\* foreground thread returns at once; no driver command is issued, the lock
\* is not taken, no thread is started and the session state is unchanged.
C8_GrabOnEmptyIsNoOp ==
    /\ [](fgPc = "gr_test" => (~issued /\ opLaunched = 0))
    /\ [][(fgPc = "gr_test" /\ piece = 0 /\ fgPc' # fgPc) =>
            (/\ fgPc' = "idle"
             /\ ~issued'
             /\ opLaunched' = 0
             /\ UNCHANGED <<piece, stack, board_calibrated, magazine_ready,
                            belt_lock, arm, gripper, conveyor, belt, adv>>)]_vars

\* grab_piece() has returned without a driver command, on a session that was
\* loaded before.
C8_Witness ==
    /\ fgPc = "idle"
    /\ lastOp = "grab"
    /\ ~issued
    /\ magazine_ready
    /\ piece = 0

\* C9: every call of set_up_game(target) returns, with piece count == target,
\* whatever the state it starts in.
C9_SetUpTerminates ==
    (fgPc = "su_magazine") ~> (fgPc = "idle" /\ piece = target)

\* C10: when a step of the constructor fails after the connection was
\* opened, end_robot() is called exactly once before the failure propagates,
\* and no later step is executed.
C10_TeardownOnInitFailure ==
    /\ endCalls <= 1
    /\ (inPc = "raised") => (endCalls = 1 /\ inFailed # 0)
    /\ (endCalls = 1) => (inPc = "raised" /\ inFailed # 0)
    /\ (inFailed # 0) =>
            /\ inPc \in {"except", "raised"}
            /\ inLog = [i \in 1..inFailed |-> i]
            /\ exPc = "idle"
    /\ (inPc = "constructed") => (inLog = [i \in 1..Len(InitSteps) |-> i])

\* The gripper step failed: teardown ran, set_conveyor and move_to_home did
\* not.
C10_Witness ==
    /\ inPc = "raised"
    /\ inFailed = 4
    /\ endCalls = 1

\* A step of the foreground thread that leaves position pc.
FgLeaves(pc) == fgPc = pc /\ fgPc' # fgPc

\* Thread t is started in this step.
Launched(t) == adv[t].pc = "free" /\ adv'[t].pc = "spawned"

\* C13: the piece count changes only through load and grab: a completed
\* grab_piece with piece count > 0 lowers it by exactly 1, no grab raises it,
\* set_up_game never lowers it, drop_piece_to_board and the advance threads
\* never change it.
C13_PieceCountChanges ==
    /\ [][/\ (piece' # piece) => (fgPc' # fgPc /\ adv' = adv)
          /\ (piece' < piece) => (fgPc = "gr_dec_piece" /\ piece' = piece - 1)
          /\ (piece' > piece) => (fgPc = "su_fetch" /\ piece' = piece + 1)]_vars
    /\ []((fgPc = "idle" /\ lastOp = "grab" /\ opPiece0 > 0) =>
                piece = opPiece0 - 1)
    /\ [](lastOp = "grab" => piece \in {opPiece0 - 1, opPiece0})
    /\ [](lastOp = "setup" => piece >= opPiece0)
    /\ [](lastOp = "drop" => piece = opPiece0)

\* A grab has returned with the count lowered from 3 to 2.
C13_Witness ==
    /\ fgPc = "idle"
    /\ lastOp = "grab"
    /\ opPiece0 = 3
    /\ piece = 2

\* C16: a belt advance is launched in exactly two cases, each time one thread
\* and after the foreground thread has released the lock: in set_up_game after
\* a placement that leaves staged count 2 with piece count # target (count
\* reset to 0, BACKWARD); in grab_piece after a grab that leaves staged count
\* 0 with piece count # 0 (count set to 2, FORWARD).  None after the last
\* piece of a load or the last grab.
C16_LaunchCases ==
    /\ [][\A t \in Tids : Launched(t) =>
            /\ belt_lock # "fg"
            /\ \A u \in Tids \ {t} : adv'[u] = adv[u]
            /\ \/ /\ fgPc = "su_spawn"
                  /\ adv'[t].dir = "BACKWARD"
                  /\ stack = 0
                  /\ piece # target
               \/ /\ fgPc = "gr_spawn"
                  /\ adv'[t].dir = "FORWARD"
                  /\ stack = 2
                  /\ piece # 0]_vars
    /\ [][FgLeaves("su_check") =>
            /\ belt_lock # "fg"
            /\ fgPc' = IF stack = 2 /\ piece # target THEN "su_reset" ELSE "su_test"]_vars
    /\ [][FgLeaves("su_reset") => (stack = 2 /\ stack' = 0 /\ fgPc' = "su_spawn")]_vars
    /\ [][FgLeaves("su_spawn") => (\E t \in Tids : Launched(t))]_vars
    /\ [][FgLeaves("gr_check") =>
            /\ belt_lock # "fg"
            /\ fgPc' = IF stack = 0 /\ piece # 0 THEN "gr_set" ELSE "idle"]_vars
    /\ [][FgLeaves("gr_set") => (stack = 0 /\ stack' = 2 /\ fgPc' = "gr_spawn")]_vars
    /\ [][FgLeaves("gr_spawn") => (\E t \in Tids : Launched(t))]_vars

\* Both kinds of advance are outstanding: a BACKWARD one from a load and a
\* FORWARD one just launched by a grab.
C16_Witness ==
    /\ fgPc = "idle"
    /\ lastOp = "grab"
    /\ opLaunched = 1
    /\ \E t \in Tids : adv[t].dir = "FORWARD"
    /\ \E t \in Tids : adv[t].dir = "BACKWARD"

\* C17: inside the belt section a placement goes to slot 0 exactly when the
\* staged count is 0 and to slot 1 otherwise; a grab goes to slot 0 exactly
\* when the staged count is 1 and to slot 1 otherwise.  The count that chose
\* the slot is the count the increment / decrement then updates.
C17_SlotSelection ==
    /\ [][FgLeaves("su_move") =>
            /\ belt_lock = "fg"
            /\ arm' = IF stack = 0 THEN "index0" ELSE "index1"]_vars
    /\ [][FgLeaves("gr_move") =>
            /\ belt_lock = "fg"
            /\ arm' = IF stack = 1 THEN "index0" ELSE "index1"]_vars
    /\ [](fgPc = "su_inc" => ((arm = "index0") <=> (stack = 0)))
    /\ [](fgPc = "su_inc" => arm \in {"index0", "index1"})
    /\ [](fgPc \in {"gr_close", "gr_home"} => ((arm = "index0") <=> (stack = 1)))
    /\ [](fgPc = "gr_close" => arm \in {"index0", "index1"})

\* The second grab of a pair: the arm is over slot 0 with one piece staged,
\* after the first grab took slot 1.
C17_Witness ==
    /\ fgPc = "gr_close"
    /\ arm = "index0"
    /\ stack = 1
    /\ scen = "loaded"
    /\ scenG = 2

\* C19: drop_piece_to_board never takes or waits for the belt lock and leaves
\* the counts and flags unchanged: each of its steps (approach, drop pose,
\* gripper open, approach, home, in this order) can be taken whatever the
\* advance threads do, also while one holds the lock and runs the conveyor.
C19_DropIgnoresBelt ==
    /\ [](fgPc \in DropPcs => ENABLED DropPieceToBoard)
    /\ [][(fgPc \in DropPcs /\ fgPc' # fgPc) =>
            /\ UNCHANGED <<piece, stack, board_calibrated, magazine_ready,
                           belt_lock, conveyor, belt, adv>>
            /\ <<fgPc, fgPc'>> \in {<<"dr_approach", "dr_down">>,
                                    <<"dr_down", "dr_open">>,
                                    <<"dr_open", "dr_retreat">>,
                                    <<"dr_retreat", "dr_home">>,
                                    <<"dr_home", "idle">>}
            /\ fgPc = "dr_approach" => (arm' = "board_approach" /\ gripper' = gripper)
            /\ fgPc = "dr_down" => (arm' = "board_drop" /\ gripper' = gripper)
            /\ fgPc = "dr_open" => (arm' = arm /\ gripper' = "open")
            /\ fgPc = "dr_retreat" => (arm' = "board_approach" /\ gripper' = gripper)
            /\ fgPc = "dr_home" => (arm' = "home" /\ gripper' = gripper)]_vars

\* The gripper has been opened over the board and the arm is retreating while
\* an advance thread holds the lock and runs the conveyor.
C19_Witness ==
    /\ fgPc = "dr_retreat"
    /\ gripper = "open"
    /\ arm = "board_drop"
    /\ belt_lock = "adv"
    /\ conveyor # "stopped"

\* set_up_game is between taking the lock for a placement and the test
\* after it.
SetUpPlacing ==
    fgPc \in {"su_acquire", "su_move", "su_inc", "su_open", "su_home",
              "su_release", "su_check", "su_reset", "su_spawn"}

\* C12: board_calibrated goes from false to true at most once and never back;
\* __calibrate_board is entered at most once over any sequence of set_up_game
\* calls, sets the flag only after the operator has confirmed every lane, and
\* has completed before the first piece is placed on a belt slot.
C12_CalibratedOnce ==
    /\ [][board_calibrated => board_calibrated']_vars
    /\ [][(~board_calibrated /\ board_calibrated') =>
            (fgPc = "cal_home" /\ calConfirmed = Lanes)]_vars
    /\ [](calRuns <= 1)
    /\ [](board_calibrated => (calRuns = 1 /\ calConfirmed = Lanes))
    /\ [](SetUpPlacing => board_calibrated)
    /\ [](~board_calibrated => (stack = 0 /\ opPlaced = 0))

\* A second set_up_game call, made after the first load was grabbed empty,
\* is at the test of line 175 with the board calibrated by the first call.
C12_Witness ==
    /\ fgPc = "su_calibrate"
    /\ board_calibrated
    /\ calRuns = 1
    /\ opPiece0 = 0
    /\ piece = 1

\* C18: on the physical belt, grab_piece never closes the gripper on an empty
\* place and set_up_game never opens it over an occupied place, under every
\* interleaving with the advance threads and every sequence of calls.
C18_SlotsMatchBelt ==
    /\ [][FgLeaves("gr_close") => SlotAt(arm) \in belt.places]_vars
    /\ [][FgLeaves("su_open") => SlotAt(arm) \notin belt.places]_vars

\* The places in gpLog of the entries in set S.
LogAt(S) == {i \in 1..Len(gpLog) : gpLog[i] \in S}

\* C15: in __control_gripper, for status readings nonzero k times and then
\* zero (or absent), exactly k update_tool actions are issued, each after a
\* nonzero reading and all before the tool action; the tool action is the one
\* requested, is issued exactly once, and directly follows the zero (or
\* absent) reading.
C15_ReinitThenAct ==
    LET acts == LogAt({"release_with_tool", "grasp_with_tool"})
        reinits == LogAt({"update_tool"})
        faults == LogAt({"fault"})
    IN  /\ Cardinality(acts) <= 1
        /\ \A i \in acts :
            /\ i = Len(gpLog)
            /\ gpLog[i] = ToolCall(gpAction)
            /\ i > 1
            /\ gpLog[i - 1] \in {"clear", "absent"}
            /\ Cardinality(reinits) = Cardinality(faults)
            /\ LogAt({"clear", "absent", "error"}) = {i - 1}
        /\ \A j \in reinits : j > 1 /\ gpLog[j - 1] = "fault"
        /\ \A j \in faults : j < Len(gpLog) /\ gpLog[j + 1] = "update_tool"
        /\ Cardinality(faults) = inFaults
        /\ (inPc \in {"grip_act", "grip_done"}) => acts # {}

\* A grasp was requested, the status read nonzero twice and then zero, and
\* __control_gripper has returned.
C15_Witness ==
    /\ inPc = "grip_done"
    /\ gpLog = <<"fault", "update_tool", "fault", "update_tool", "clear",
                 "grasp_with_tool">>

\* C14: whenever the body of a __slow_arm_control scope has exited, normally
\* or by a failure of any kind, the next command is set_arm_max_velocity(100)
\* and it is the last velocity command issued: the slow speed was commanded
\* once, before the body, and nothing follows the restore.
C14_VelocityRestored ==
    /\ [][(slPc \in {"body", "body_wait"} /\ slPc' \notin {"body", "body_wait"}) =>
            slPc' = "finally"]_vars
    /\ [](slPc = "finally" => ENABLED SlowRestore)
    /\ [][(slPc = "finally" /\ slPc' # slPc) =>
            (slPc' = "restore_wait" /\ slLog' = Append(slLog, 100))]_vars
    /\ [](slPc \in {"restore_wait", "exited"} => slLog = <<30, 100>>)
    /\ [](slPc \in {"body", "body_wait", "finally"} => slLog = <<30>>)
    /\ []((slPc = "exited" /\ slOut = "none") => slPending = "none")

\* The second wrapped operation raised TypeError; the scope has ended with
\* that failure after commanding full speed.
C14_Witness ==
    /\ slPc = "exited"
    /\ slPending = "TypeError"
    /\ slOut = "TypeError"
    /\ slLeft = 1
    /\ slLog = <<30, 100>>

\* C11: in a session driven by __robotTest, end_robot is called exactly once
\* on every exit path after the session was created (normal completion, a
\* failure propagated out of an operation, an operator interrupt at any point
\* of the try body); the interrupt is caught, and the process exits with
\* status 130 only after end_robot was called.
C11_TeardownOnce ==
    /\ [](endCalls <= 1)
    /\ [][(endCalls' # endCalls) => (rtPc = "finally" /\ endCalls' = 1)]_vars
    /\ [](rtPc \in {"join", "exited"} => endCalls = 1)
    /\ [](rtPc = "finally" => ENABLED RunEndRobot)
    /\ [][(rtPc \in {"setup", "loop", "grab", "drop", "except"} /\ rtPc' # rtPc) =>
            rtPc' \in {"setup", "loop", "grab", "drop", "except", "finally"}]_vars
    /\ [](rtStatus # 0 - 1 => (rtPc = "exited" /\ endCalls = 1))
    /\ [](rtStatus = 130 => rtCaught)
    /\ []((rtPc = "exited" /\ rtPending = "SystemExit") => rtStatus = 130)

\* The operator interrupted a run with pieces still loaded; end_robot ran and
\* the process has exited with status 130 through sys.exit.
C11_Witness ==
    /\ rtPc = "exited"
    /\ rtStatus = 130
    /\ rtPending = "SystemExit"
    /\ endCalls = 1
    /\ piece > 0
    /\ rtLeft > 0

\* C20: after end_robot was called no thread issues a driver command (no
\* belt-advance thread still has run_conveyor or stop_conveyor ahead of it),
\* and the conveyor is not running at session end.
C20_QuietAfterEnd ==
    ~connected =>
        /\ \A t \in Tids : adv[t].pc \in {"free", "stopped"}
        /\ conveyor = "stopped"

\* C21: whenever no operation is in progress, the staged count is at most
\* the piece count, their difference is even, and the staged count is 0
\* exactly when the piece count is 0; so a grab_piece that passes the test of
\* line 199 takes the lock with at least one piece staged.
C21_StagedAgainstPieces ==
    /\ fgPc = "idle" =>
        /\ stack <= piece
        /\ (piece - stack) % 2 = 0
        /\ (stack = 0) <=> (piece = 0)
    /\ fgPc \in {"gr_acquire", "gr_move"} => (piece > 0 /\ stack >= 1)

\* A grab emptied the pair under the arm with two pieces left: the staged
\* count was set back to 2 before grab_piece returned.
C21_Witness ==
    /\ fgPc = "idle"
    /\ lastOp = "grab"
    /\ opLaunched = 1
    /\ stack = 2
    /\ piece = 2

====
